---- MODULE Spec2Model ----
(***************************************************************************)
(* RTKA-U: three-valued Kleene logic with confidence propagation.          *)
(* Model of src/code/rtka_u_improved.py: the expression classes            *)
(* (AtomicProposition, Conjunction, Disjunction, Negation), their two      *)
(* evaluation methods (evaluate_rtka, evaluate_naive) and the              *)
(* RTKAEvaluator that drives them and counts evaluations.                  *)
(*                                                                         *)
(* Confidences are Python floats.  They are modelled as exact rationals    *)
(* <<numerator, denominator>> in lowest terms; every confidence the model  *)
(* feeds in is a multiple of 1/2, so all products and differences that     *)
(* occur are dyadic rationals with a few bits, on which IEEE-754 double    *)
(* arithmetic is exact.                                                    *)
(***************************************************************************)
EXTENDS Integers, Sequences, FiniteSets, TLC

VARIABLES
    expr,               \* the expression under construction / evaluation
    aux,                \* a second expression object (the other operand)
    call,               \* the arguments of the last constructor call
    err,                \* the error the last call raised, or "none"
    pc,                 \* "build" while constructing, "evaluate" afterwards
    rtka_result,        \* result of evaluator.evaluate(expr, "rtka"), or None
    naive_result,       \* result of evaluator.evaluate(expr, "naive"), or None
    rtka_evaluations,   \* RTKAEvaluator.rtka_evaluations
    naive_evaluations,  \* RTKAEvaluator.naive_evaluations
    flat_call,          \* a call of a function of rtka_u_algorithm.py
    flat_result,        \* what that call returned or raised, or None
    flat_visits,        \* the invocations of recursive_ternary the call made
    evaluators,         \* the RTKAEvaluator instances: their four statistics
    history,            \* per instance, the evaluate calls since its last reset
    stats_call          \* the last call of an RTKAEvaluator method, its outcome

vars == <<expr, aux, call, err, pc, rtka_result, naive_result,
          rtka_evaluations, naive_evaluations, flat_call, flat_result,
          flat_visits, evaluators, history, stats_call>>

\* the variables of the flat-sequence functions
flat == <<flat_call, flat_result, flat_visits>>

\* the variables of the evaluators' instrumentation
stats == <<evaluators, history, stats_call>>

(***************************************************************************)
(* Bounds of the model.                                                    *)
(***************************************************************************)
\* number of expression nodes alive in expr and aux together
MaxNodes == 5
\* cap on each of the evaluator's two evaluation counters
MaxEvaluations == 4

\* Python's None, as an expression object, as a result and as a confidence
None == [kind |-> "None"]
NoConfidence == <<>>

(***************************************************************************)
(* Float arithmetic on exact rationals <<n, d>>, d > 0, lowest terms.      *)
(***************************************************************************)
Abs(n) == IF n < 0 THEN -n ELSE n

RECURSIVE GCD(_, _)
GCD(a, b) == IF b = 0 THEN a ELSE GCD(b, a % b)

Norm(n, d) == LET g == GCD(Abs(n), d) IN <<n \div g, d \div g>>

ZERO == <<0, 1>>
HALF == <<1, 2>>
ONE == <<1, 1>>

FMul(x, y) == Norm(x[1] * y[1], x[2] * y[2])
FSub(x, y) == Norm(x[1] * y[2] - y[1] * x[2], x[2] * y[2])
FLeq(x, y) == x[1] * y[2] <= y[1] * x[2]

Min(a, b) == IF a <= b THEN a ELSE b
Max(a, b) == IF a >= b THEN a ELSE b

(***************************************************************************)
(* class TruthValue(Enum): members and their integer values.               *)
(***************************************************************************)
TruthValueMembers == {"TRUE", "UNKNOWN", "FALSE"}

\* member.value
TruthValue_value(m) ==
    CASE m = "TRUE" -> 1
      [] m = "UNKNOWN" -> 0
      [] m = "FALSE" -> -1

\* TruthValue(i): the member whose value is i
TruthValue(i) == CHOOSE m \in TruthValueMembers : TruthValue_value(m) = i

(***************************************************************************)
(* Expression objects.  A node is a record tagged with its class.          *)
(***************************************************************************)
AtomicNode(value, confidence) ==
    [kind |-> "Atomic", value |-> value, confidence |-> confidence]

\* Conjunction.__init__
Conjunction(left, right) ==
    [kind |-> "Conjunction", left |-> left, right |-> right]

\* Disjunction.__init__
Disjunction(left, right) ==
    [kind |-> "Disjunction", left |-> left, right |-> right]

\* Negation.__init__
Negation(operand) == [kind |-> "Negation", operand |-> operand]

\* number of node objects of an expression (None holds none)
RECURSIVE Nodes(_)
Nodes(t) ==
    IF t = None THEN 0
    ELSE CASE t.kind = "Atomic" -> 1
           [] t.kind = "Negation" -> 1 + Nodes(t.operand)
           [] OTHER -> 1 + Nodes(t.left) + Nodes(t.right)

(***************************************************************************)
(* AtomicProposition.__init__(value, confidence=None).                     *)
(* The outcome is [error |-> kind] when the constructor raises and         *)
(* [error |-> "none", node |-> n] when it returns.                         *)
(***************************************************************************)
Raised(kind) == [error |-> kind]
Built(node) == [error |-> "none", node |-> node]

\* The value argument is Union[TruthValue, int]: [int |-> i] is the raw
\* integer i and [member |-> m] the TruthValue member m.
IsInt(value) == "int" \in DOMAIN value

\* mutant: a TRUE or FALSE atom accepts any confidence in [0,1]
AtomicProposition_any_definite_confidence(value, confidence) ==
    IF IsInt(value) /\ value.int \notin {-1, 0, 1}
    THEN Raised("InvalidTernaryValue")
    ELSE LET self_value ==
                 IF IsInt(value) THEN TruthValue(value.int) ELSE value.member
         IN
         IF confidence = NoConfidence
         THEN Built(AtomicNode(self_value,
                               IF self_value # "UNKNOWN" THEN ONE ELSE HALF))
         ELSE IF ~(FLeq(ZERO, confidence) /\ FLeq(confidence, ONE))
         THEN Raised("InvalidConfidence")
         ELSE Built(AtomicNode(self_value, confidence))

\* mutant: the default confidence is 1.0 for every value
AtomicProposition_default_one(value, confidence) ==
    IF IsInt(value) /\ value.int \notin {-1, 0, 1}
    THEN Raised("InvalidTernaryValue")
    ELSE LET self_value ==
                 IF IsInt(value) THEN TruthValue(value.int) ELSE value.member
         IN
         IF confidence = NoConfidence
         THEN Built(AtomicNode(self_value, ONE))
         ELSE IF self_value \in {"TRUE", "FALSE"} /\ confidence # ONE
         THEN Raised("InvalidDefiniteConfidence")
         ELSE IF ~(FLeq(ZERO, confidence) /\ FLeq(confidence, ONE))
         THEN Raised("InvalidConfidence")
         ELSE Built(AtomicNode(self_value, confidence))

\* mutant: a raw integer outside {-1, 0, 1} is coerced to its sign
AtomicProposition_coerces(value, confidence) ==
    LET self_value ==
            IF ~IsInt(value) THEN value.member
            ELSE TruthValue(IF value.int > 0 THEN 1
                            ELSE IF value.int < 0 THEN -1 ELSE 0)
    IN
    IF confidence = NoConfidence
    THEN Built(AtomicNode(self_value,
                          IF self_value # "UNKNOWN" THEN ONE ELSE HALF))
    ELSE IF self_value \in {"TRUE", "FALSE"} /\ confidence # ONE
    THEN Raised("InvalidDefiniteConfidence")
    ELSE IF ~(FLeq(ZERO, confidence) /\ FLeq(confidence, ONE))
    THEN Raised("InvalidConfidence")
    ELSE Built(AtomicNode(self_value, confidence))

AtomicProposition(value, confidence) ==
    IF IsInt(value) /\ value.int \notin {-1, 0, 1}
    THEN Raised("InvalidTernaryValue")
    ELSE LET self_value ==
                 IF IsInt(value) THEN TruthValue(value.int) ELSE value.member
         IN
         IF confidence = NoConfidence
         THEN Built(AtomicNode(self_value,
                               IF self_value # "UNKNOWN" THEN ONE ELSE HALF))
         ELSE IF self_value \in {"TRUE", "FALSE"} /\ confidence # ONE
         THEN Raised("InvalidDefiniteConfidence")
         ELSE IF ~(FLeq(ZERO, confidence) /\ FLeq(confidence, ONE))
         THEN Raised("InvalidConfidence")
         ELSE Built(AtomicNode(self_value, confidence))

(***************************************************************************)
(* EvaluationResult(value, confidence, evaluations).  __post_init__ raises *)
(* when the confidence is outside [0,1].  The field calls is not a field   *)
(* of the Python object: it records the nodes whose evaluate method ran to *)
(* produce the result, as paths from the node the result belongs to.       *)
(***************************************************************************)
\* mutant: __post_init__ clamps the confidence into [0,1]
EvaluationResult_clamps(value, confidence, evaluations, calls) ==
    [raised |-> FALSE, value |-> value,
     confidence |-> IF FLeq(confidence, ZERO) THEN ZERO
                    ELSE IF FLeq(ONE, confidence) THEN ONE ELSE confidence,
     evaluations |-> evaluations, calls |-> calls]

EvaluationResult(value, confidence, evaluations, calls) ==
    IF ~(FLeq(ZERO, confidence) /\ FLeq(confidence, ONE))
    THEN [raised |-> TRUE, calls |-> calls]
    ELSE [raised |-> FALSE, value |-> value, confidence |-> confidence,
          evaluations |-> evaluations, calls |-> calls]

\* the calls of a child's evaluation, seen from the parent
Under(attr, result) == {<<attr>> \o p : p \in result.calls}

\* an exception raised in a child's evaluation propagates through the parent
Propagate(attr, result) ==
    [raised |-> TRUE, calls |-> {<<>>} \cup Under(attr, result)]

RECURSIVE evaluate_rtka(_)
RECURSIVE evaluate_naive(_)

\* mutant: the conjunction also stops on an UNKNOWN left operand
Conjunction_early_termination_on_unknown(left_result) ==
    left_result.value # "TRUE"

\* mutant: the conjunction never stops early
Conjunction_early_termination_never(left_result) == FALSE

\* mutant: the disjunction never stops early
Disjunction_early_termination_never(left_result) == FALSE

\* Conjunction.evaluate_rtka: if left_result.value == TruthValue.FALSE
Conjunction_early_termination(left_result) == left_result.value = "FALSE"

\* Disjunction.evaluate_rtka: if left_result.value == TruthValue.TRUE
Disjunction_early_termination(left_result) == left_result.value = "TRUE"

\* mutant: the conjunction multiplies the confidences also when it is FALSE
Conjunction_result_confidence_product(result_value, left, right) ==
    FMul(left, right)

\* mutant: the conjunction takes the smaller confidence, not the product
Conjunction_result_confidence_min(result_value, left, right) ==
    IF result_value = "FALSE" THEN ONE
    ELSE IF FLeq(left, right) THEN left ELSE right

\* Conjunction: 1.0 if result_value == FALSE else left * right
Conjunction_result_confidence(result_value, left_confidence, right_confidence) ==
    IF result_value = "FALSE" THEN ONE
    ELSE FMul(left_confidence, right_confidence)

\* mutant: the disjunction multiplies the confidences as the conjunction does
Disjunction_result_confidence_product(left, right) == FMul(left, right)

\* Disjunction: 1.0 - (1.0 - left) * (1.0 - right)
Disjunction_result_confidence(left_confidence, right_confidence) ==
    FSub(ONE, FMul(FSub(ONE, left_confidence), FSub(ONE, right_confidence)))

\* AtomicProposition.evaluate_rtka
AtomicProposition_evaluate_rtka(self) ==
    EvaluationResult(self.value, self.confidence, 1, {<<>>})

\* AtomicProposition.evaluate_naive
AtomicProposition_evaluate_naive(self) ==
    AtomicProposition_evaluate_rtka(self)

\* mutant: the conjunction counts itself as one more evaluation
Conjunction_evaluate_rtka_counts_itself(self) ==
    LET left_result == evaluate_rtka(self.left) IN
    IF left_result.raised THEN Propagate("left", left_result)
    ELSE IF left_result.value = "FALSE"
    THEN EvaluationResult("FALSE", ONE, 1 + left_result.evaluations,
                          {<<>>} \cup Under("left", left_result))
    ELSE LET right_result == evaluate_rtka(self.right)
             calls == {<<>>} \cup Under("left", left_result)
                             \cup Under("right", right_result)
         IN
         IF right_result.raised THEN [raised |-> TRUE, calls |-> calls]
         ELSE LET result_value ==
                      TruthValue(Min(TruthValue_value(left_result.value),
                                     TruthValue_value(right_result.value)))
                  result_confidence ==
                      IF result_value = "FALSE" THEN ONE
                      ELSE FMul(left_result.confidence, right_result.confidence)
              IN EvaluationResult(result_value, result_confidence,
                     1 + left_result.evaluations + right_result.evaluations,
                     calls)

\* Conjunction.evaluate_rtka
Conjunction_evaluate_rtka(self) ==
    LET left_result == evaluate_rtka(self.left) IN
    IF left_result.raised THEN Propagate("left", left_result)
    ELSE IF Conjunction_early_termination(left_result)
    THEN EvaluationResult("FALSE", ONE, left_result.evaluations,
                          {<<>>} \cup Under("left", left_result))
    ELSE LET right_result == evaluate_rtka(self.right)
             calls == {<<>>} \cup Under("left", left_result)
                             \cup Under("right", right_result)
         IN
         IF right_result.raised THEN [raised |-> TRUE, calls |-> calls]
         ELSE LET result_value ==
                      TruthValue(Min(TruthValue_value(left_result.value),
                                     TruthValue_value(right_result.value)))
                  result_confidence ==
                      Conjunction_result_confidence(result_value,
                          left_result.confidence, right_result.confidence)
              IN EvaluationResult(result_value, result_confidence,
                     left_result.evaluations + right_result.evaluations, calls)

\* Conjunction.evaluate_naive
Conjunction_evaluate_naive(self) ==
    LET left_result == evaluate_naive(self.left) IN
    IF left_result.raised THEN Propagate("left", left_result)
    ELSE LET right_result == evaluate_naive(self.right)
             calls == {<<>>} \cup Under("left", left_result)
                             \cup Under("right", right_result)
         IN
         IF right_result.raised THEN [raised |-> TRUE, calls |-> calls]
         ELSE LET result_value ==
                      TruthValue(Min(TruthValue_value(left_result.value),
                                     TruthValue_value(right_result.value)))
                  result_confidence ==
                      Conjunction_result_confidence(result_value,
                          left_result.confidence, right_result.confidence)
              IN EvaluationResult(result_value, result_confidence,
                     left_result.evaluations + right_result.evaluations, calls)

\* Disjunction.evaluate_rtka
Disjunction_evaluate_rtka(self) ==
    LET left_result == evaluate_rtka(self.left) IN
    IF left_result.raised THEN Propagate("left", left_result)
    ELSE IF Disjunction_early_termination(left_result)
    THEN EvaluationResult("TRUE", ONE, left_result.evaluations,
                          {<<>>} \cup Under("left", left_result))
    ELSE LET right_result == evaluate_rtka(self.right)
             calls == {<<>>} \cup Under("left", left_result)
                             \cup Under("right", right_result)
         IN
         IF right_result.raised THEN [raised |-> TRUE, calls |-> calls]
         ELSE LET result_value ==
                      TruthValue(Max(TruthValue_value(left_result.value),
                                     TruthValue_value(right_result.value)))
                  result_confidence ==
                      Disjunction_result_confidence(left_result.confidence,
                                                    right_result.confidence)
              IN EvaluationResult(result_value, result_confidence,
                     left_result.evaluations + right_result.evaluations, calls)

\* Disjunction.evaluate_naive
Disjunction_evaluate_naive(self) ==
    LET left_result == evaluate_naive(self.left) IN
    IF left_result.raised THEN Propagate("left", left_result)
    ELSE LET right_result == evaluate_naive(self.right)
             calls == {<<>>} \cup Under("left", left_result)
                             \cup Under("right", right_result)
         IN
         IF right_result.raised THEN [raised |-> TRUE, calls |-> calls]
         ELSE LET result_value ==
                      TruthValue(Max(TruthValue_value(left_result.value),
                                     TruthValue_value(right_result.value)))
                  result_confidence ==
                      Disjunction_result_confidence(left_result.confidence,
                                                    right_result.confidence)
              IN EvaluationResult(result_value, result_confidence,
                     left_result.evaluations + right_result.evaluations, calls)

\* mutant: the negation complements the confidence
Negation_evaluate_rtka_complements(self) ==
    LET operand_result == evaluate_rtka(self.operand) IN
    IF operand_result.raised THEN Propagate("operand", operand_result)
    ELSE EvaluationResult(TruthValue(-TruthValue_value(operand_result.value)),
                          FSub(ONE, operand_result.confidence),
                          operand_result.evaluations,
                          {<<>>} \cup Under("operand", operand_result))

\* Negation.evaluate_rtka
Negation_evaluate_rtka(self) ==
    LET operand_result == evaluate_rtka(self.operand) IN
    IF operand_result.raised THEN Propagate("operand", operand_result)
    ELSE LET result_value == TruthValue(-TruthValue_value(operand_result.value))
             result_confidence == operand_result.confidence
         IN EvaluationResult(result_value, result_confidence,
                operand_result.evaluations,
                {<<>>} \cup Under("operand", operand_result))

\* Negation.evaluate_naive: return self.evaluate_rtka()
Negation_evaluate_naive(self) == Negation_evaluate_rtka(self)

\* expression.evaluate_rtka(): dispatch on the node's class
evaluate_rtka(self) ==
    CASE self.kind = "Atomic" -> AtomicProposition_evaluate_rtka(self)
      [] self.kind = "Conjunction" -> Conjunction_evaluate_rtka(self)
      [] self.kind = "Disjunction" -> Disjunction_evaluate_rtka(self)
      [] self.kind = "Negation" -> Negation_evaluate_rtka(self)

\* expression.evaluate_naive(): dispatch on the node's class
evaluate_naive(self) ==
    CASE self.kind = "Atomic" -> AtomicProposition_evaluate_naive(self)
      [] self.kind = "Conjunction" -> Conjunction_evaluate_naive(self)
      [] self.kind = "Disjunction" -> Disjunction_evaluate_naive(self)
      [] self.kind = "Negation" -> Negation_evaluate_naive(self)

(***************************************************************************)
(* class RTKAEvaluator.  An instance is the record of its four attributes. *)
(* The times are sums of differences of two time.perf_counter() readings,  *)
(* counted in ticks of that clock; the ratios performance_summary returns  *)
(* are exact rationals.                                                    *)
(***************************************************************************)
\* the evaluator instances alive
Instances == {1, 2}

\* a / b in Python: ZeroDivisionError when b is 0
Divide(a, b) ==
    IF b = 0 THEN Raised("ZeroDivisionError")
    ELSE [error |-> "none", value |-> Norm(a, b)]

\* mutant: reset_stats forgets the naive counter
RTKAEvaluator_reset_stats_keeps_naive(self) ==
    [rtka_evaluations |-> 0,
     naive_evaluations |-> IF "naive_evaluations" \in DOMAIN self
                           THEN self.naive_evaluations ELSE 0,
     rtka_time |-> 0, naive_time |-> 0]

\* RTKAEvaluator.reset_stats (and __init__, which only calls it)
RTKAEvaluator_reset_stats(self) ==
    [rtka_evaluations |-> 0, naive_evaluations |-> 0,
     rtka_time |-> 0, naive_time |-> 0]

\* mutant: an unknown method falls back to the optimized evaluation
RTKAEvaluator_evaluate_defaults_to_rtka(self, expression, method, elapsed) ==
    LET result == IF method = "naive" THEN evaluate_naive(expression)
                  ELSE evaluate_rtka(expression)
    IN IF result.raised THEN [error |-> "InvalidConfidence", self |-> self]
       ELSE IF method = "naive"
       THEN [error |-> "none", result |-> result,
             self |-> [self EXCEPT
                          !.naive_evaluations = @ + result.evaluations,
                          !.naive_time = @ + elapsed]]
       ELSE [error |-> "none", result |-> result,
             self |-> [self EXCEPT
                          !.rtka_evaluations = @ + result.evaluations,
                          !.rtka_time = @ + elapsed]]

\* mutant: the naive branch books its evaluations on the optimized counter
RTKAEvaluator_evaluate_books_on_rtka(self, expression, method, elapsed) ==
    IF method \in {"rtka", "naive"}
    THEN LET result == IF method = "rtka" THEN evaluate_rtka(expression)
                       ELSE evaluate_naive(expression)
         IN IF result.raised THEN [error |-> "InvalidConfidence", self |-> self]
            ELSE [error |-> "none", result |-> result,
                  self |-> [self EXCEPT
                               !.rtka_evaluations = @ + result.evaluations,
                               !.rtka_time = @ + elapsed]]
    ELSE [error |-> "UnknownMethod", self |-> self]

\* RTKAEvaluator.evaluate(expression, method), the clock having advanced by
\* elapsed between the two readings.  An exception leaves the instance as it
\* was: the attributes are updated after the evaluation returned.
RTKAEvaluator_evaluate(self, expression, method, elapsed) ==
    IF method = "rtka"
    THEN LET result == evaluate_rtka(expression) IN
         IF result.raised THEN [error |-> "InvalidConfidence", self |-> self]
         ELSE [error |-> "none", result |-> result,
               self |-> [self EXCEPT
                            !.rtka_evaluations = @ + result.evaluations,
                            !.rtka_time = @ + elapsed]]
    ELSE IF method = "naive"
    THEN LET result == evaluate_naive(expression) IN
         IF result.raised THEN [error |-> "InvalidConfidence", self |-> self]
         ELSE [error |-> "none", result |-> result,
               self |-> [self EXCEPT
                            !.naive_evaluations = @ + result.evaluations,
                            !.naive_time = @ + elapsed]]
    ELSE [error |-> "UnknownMethod", self |-> self]

\* mutant: the speedup is guarded by naive_time instead of rtka_time
RTKAEvaluator_performance_summary_wrong_guard(self) ==
    LET speedup == IF self.naive_time > 0
                   THEN Divide(self.naive_time, self.rtka_time)
                   ELSE [error |-> "none", value |-> ZERO]
        evaluation_reduction ==
            IF self.naive_evaluations > 0
            THEN Divide(self.naive_evaluations - self.rtka_evaluations,
                        self.naive_evaluations)
            ELSE [error |-> "none", value |-> ZERO]
    IN IF speedup.error # "none" THEN speedup
       ELSE IF evaluation_reduction.error # "none" THEN evaluation_reduction
       ELSE [error |-> "none",
             rtka_evaluations |-> self.rtka_evaluations,
             naive_evaluations |-> self.naive_evaluations,
             evaluation_reduction |-> evaluation_reduction.value,
             rtka_time |-> self.rtka_time,
             naive_time |-> self.naive_time,
             speedup |-> speedup.value]

\* mutant: the reduction is taken from the optimized side
RTKAEvaluator_performance_summary_swapped(self) ==
    LET speedup == IF self.rtka_time > 0
                   THEN Divide(self.naive_time, self.rtka_time)
                   ELSE [error |-> "none", value |-> ZERO]
        evaluation_reduction ==
            IF self.naive_evaluations > 0
            THEN Divide(self.rtka_evaluations - self.naive_evaluations,
                        self.naive_evaluations)
            ELSE [error |-> "none", value |-> ZERO]
    IN IF speedup.error # "none" THEN speedup
       ELSE IF evaluation_reduction.error # "none" THEN evaluation_reduction
       ELSE [error |-> "none",
             rtka_evaluations |-> self.rtka_evaluations,
             naive_evaluations |-> self.naive_evaluations,
             evaluation_reduction |-> evaluation_reduction.value,
             rtka_time |-> self.rtka_time,
             naive_time |-> self.naive_time,
             speedup |-> speedup.value]

\* RTKAEvaluator.performance_summary
RTKAEvaluator_performance_summary(self) ==
    LET speedup == IF self.rtka_time > 0
                   THEN Divide(self.naive_time, self.rtka_time)
                   ELSE [error |-> "none", value |-> ZERO]
        evaluation_reduction ==
            IF self.naive_evaluations > 0
            THEN Divide(self.naive_evaluations - self.rtka_evaluations,
                        self.naive_evaluations)
            ELSE [error |-> "none", value |-> ZERO]
    IN IF speedup.error # "none" THEN speedup
       ELSE IF evaluation_reduction.error # "none" THEN evaluation_reduction
       ELSE [error |-> "none",
             rtka_evaluations |-> self.rtka_evaluations,
             naive_evaluations |-> self.naive_evaluations,
             evaluation_reduction |-> evaluation_reduction.value,
             rtka_time |-> self.rtka_time,
             naive_time |-> self.naive_time,
             speedup |-> speedup.value]

\* the expressions handed to the evaluators: U(0.5), which counts 1 in both
\* modes, and F AND T, which counts 1 in optimized and 2 in naive mode
StatsTrees ==
    LET U == AtomicProposition([int |-> 0], HALF).node
        F == AtomicProposition([int |-> -1], NoConfidence).node
        T == AtomicProposition([int |-> 1], ONE).node
    IN {U, Conjunction(F, T)}

\* no evaluate call made yet: per mode, how often each expression was
\* evaluated and the sum of the evaluation counts returned
NoHistory ==
    [rtka |-> [t \in StatsTrees |-> 0], naive |-> [t \in StatsTrees |-> 0],
     rtka_returned |-> 0, naive_returned |-> 0]

\* the instances right after RTKAEvaluator()
StatsConstructed ==
    /\ evaluators = [i \in Instances |-> RTKAEvaluator_reset_stats(None)]
    /\ history = [i \in Instances |-> NoHistory]
    /\ stats_call = [op |-> "none"]

(***************************************************************************)
(* evaluate_expression(values, confidences, operator): builds the          *)
(* left-nested expression over the atoms Var(values[i], confidences[i])    *)
(* and evaluates it in both modes with an evaluator of its own.  The       *)
(* outcome keeps the function's locals expr, result_rtka, result_naive.    *)
(***************************************************************************)
\* props = [Var(val, conf) for val, conf in zip(values, confidences)]
evaluate_expression_props(values, confidences) ==
    [i \in 1 .. Len(values) |->
        AtomicProposition([int |-> values[i]], confidences[i])]

\* expr = props[0]; for prop in props[1:]: expr = And(expr, prop)  (or Or)
RECURSIVE evaluate_expression_chain(_, _, _)
evaluate_expression_chain(operator, props, n) ==
    IF n = 1 THEN props[1].node
    ELSE LET left == evaluate_expression_chain(operator, props, n - 1) IN
         IF operator = "AND" THEN Conjunction(left, props[n].node)
         ELSE Disjunction(left, props[n].node)

\* result_rtka = evaluator.evaluate(expr, "rtka");
\* result_naive = evaluator.evaluate(expr, "naive")
evaluate_expression_results(built) ==
    LET result_rtka == evaluate_rtka(built)
        result_naive == evaluate_naive(built)
    IN IF result_rtka.raised \/ result_naive.raised
       THEN Raised("InvalidConfidence")
       ELSE [error |-> "none", expr |-> built, result_rtka |-> result_rtka,
             result_naive |-> result_naive]

evaluate_expression(values, confidences, operator) ==
    IF Len(values) # Len(confidences) THEN Raised("MismatchedLengths")
    ELSE IF values = <<>> THEN Raised("EmptyInputSequence")
    ELSE LET props == evaluate_expression_props(values, confidences)
             failed == {i \in DOMAIN props : props[i].error # "none"}
         IN
         IF failed # {}
         THEN props[CHOOSE i \in failed : \A j \in failed : i <= j]
         ELSE IF operator \in {"AND", "OR"}
         THEN evaluate_expression_results(
                  evaluate_expression_chain(operator, props, Len(props)))
         ELSE IF operator = "NOT"
         THEN IF Len(props) # 1 THEN Raised("NotNeedsOneValue")
              ELSE evaluate_expression_results(Negation(props[1].node))
         ELSE Raised("UnsupportedOperator")

(***************************************************************************)
(* Inputs of the constructor calls.                                        *)
(***************************************************************************)
RawValues == {[int |-> i] : i \in -2 .. 2} \cup
             {[member |-> m] : m \in TruthValueMembers}

Confidences == {NoConfidence, <<-1, 2>>, HALF, ONE, <<3, 2>>}

(***************************************************************************)
(* The caller.  As evaluate_expression and the tests do, it first builds   *)
(* an expression with Var, And, Or, Not (pc = "build"), holding at most    *)
(* two expression objects at a time (expr and aux), and then hands expr    *)
(* to an RTKAEvaluator (pc = "evaluate").                                  *)
(***************************************************************************)
Init ==
    /\ expr = None
    /\ aux = None
    /\ call = [op |-> "none"]
    /\ err = "none"
    /\ pc = "build"
    /\ rtka_result = None
    /\ naive_result = None
    /\ rtka_evaluations = 0
    /\ naive_evaluations = 0
    /\ flat_call = [fn |-> "none"]
    /\ flat_result = None
    /\ flat_visits = <<>>
    /\ StatsConstructed

evaluator == <<rtka_result, naive_result, rtka_evaluations, naive_evaluations>>

\* expr = Var(value, confidence).  A ValueError raised by the constructor is
\* not caught by the caller: it unwinds the caller's frame, whose locals
\* (expr, aux) are dropped, and ends the run (pc = "raised").
Var(value, confidence) ==
    LET made == AtomicProposition(value, confidence) IN
    /\ pc = "build"
    /\ Nodes(aux) + 1 <= MaxNodes
    /\ call' = [op |-> "Var", value |-> value, confidence |-> confidence]
    /\ err' = made.error
    /\ IF made.error = "none"
       THEN /\ expr' = made.node
            /\ UNCHANGED <<aux, pc>>
       ELSE /\ expr' = None
            /\ aux' = None
            /\ pc' = "raised"
    /\ UNCHANGED evaluator
    /\ UNCHANGED flat
    /\ UNCHANGED stats

\* EvaluationResult(value, confidence) called directly, before anything is
\* built.  A ValueError of __post_init__ unwinds the caller like one of Var;
\* the object made is kept in call.returned.
Construct(value, confidence) ==
    LET made == EvaluationResult(value, confidence, 0, {}) IN
    /\ pc = "build"
    /\ expr = None /\ aux = None
    /\ call.op = "none"
    /\ call' = [op |-> "EvaluationResult", value |-> value,
                confidence |-> confidence,
                returned |-> IF made.raised THEN None ELSE made]
    /\ err' = IF made.raised THEN "InvalidConfidence" ELSE "none"
    /\ pc' = IF made.raised THEN "raised" ELSE "done"
    /\ UNCHANGED <<expr, aux, evaluator>>
    /\ UNCHANGED flat
    /\ UNCHANGED stats

\* expr, aux = aux, expr
Swap ==
    /\ pc = "build"
    /\ expr # aux
    /\ call' = [op |-> "swap"]
    /\ err' = "none"
    /\ expr' = aux
    /\ aux' = expr
    /\ UNCHANGED <<pc, evaluator>>
    /\ UNCHANGED flat
    /\ UNCHANGED stats

\* expr = And(expr, aux)
And ==
    /\ pc = "build"
    /\ expr # None /\ aux # None
    /\ Nodes(expr) + Nodes(aux) + 1 <= MaxNodes
    /\ call' = [op |-> "And"]
    /\ err' = "none"
    /\ expr' = Conjunction(expr, aux)
    /\ aux' = None
    /\ UNCHANGED <<pc, evaluator>>
    /\ UNCHANGED flat
    /\ UNCHANGED stats

\* expr = Or(expr, aux)
Or ==
    /\ pc = "build"
    /\ expr # None /\ aux # None
    /\ Nodes(expr) + Nodes(aux) + 1 <= MaxNodes
    /\ call' = [op |-> "Or"]
    /\ err' = "none"
    /\ expr' = Disjunction(expr, aux)
    /\ aux' = None
    /\ UNCHANGED <<pc, evaluator>>
    /\ UNCHANGED flat
    /\ UNCHANGED stats

\* expr = Not(expr)
Not ==
    /\ pc = "build"
    /\ expr # None
    /\ Nodes(expr) + Nodes(aux) + 1 <= MaxNodes
    /\ call' = [op |-> "Not"]
    /\ err' = "none"
    /\ expr' = Negation(expr)
    /\ UNCHANGED <<aux, pc, evaluator>>
    /\ UNCHANGED flat
    /\ UNCHANGED stats

\* the expression is complete: evaluator = RTKAEvaluator()
Finish ==
    /\ pc = "build"
    /\ expr # None
    /\ pc' = "evaluate"
    /\ call' = [op |-> "RTKAEvaluator"]
    /\ err' = "none"
    /\ aux' = None
    /\ UNCHANGED <<expr, evaluator>>
    /\ UNCHANGED flat
    /\ UNCHANGED stats

\* RTKAEvaluator.evaluate(expr, method) on the caller's evaluator, of which
\* this specification follows the two evaluation counters (the whole
\* instance, timers included, is RTKAEvaluator_evaluate of SpecStats).  An
\* exception raised while the expression is evaluated leaves evaluate before
\* the counter is updated.
Evaluate(method) ==
    /\ pc = "evaluate"
    /\ call' = [op |-> "evaluate", method |-> method]
    /\ IF method = "rtka"
       THEN LET result == evaluate_rtka(expr) IN
            IF result.raised
            THEN /\ err' = "InvalidConfidence"
                 /\ UNCHANGED evaluator
            ELSE /\ rtka_evaluations + result.evaluations <= MaxEvaluations
                 /\ rtka_result' = result
                 /\ rtka_evaluations' = rtka_evaluations + result.evaluations
                 /\ err' = "none"
                 /\ UNCHANGED <<naive_result, naive_evaluations>>
       ELSE IF method = "naive"
       THEN LET result == evaluate_naive(expr) IN
            IF result.raised
            THEN /\ err' = "InvalidConfidence"
                 /\ UNCHANGED evaluator
            ELSE /\ naive_evaluations + result.evaluations <= MaxEvaluations
                 /\ naive_result' = result
                 /\ naive_evaluations' = naive_evaluations + result.evaluations
                 /\ err' = "none"
                 /\ UNCHANGED <<rtka_result, rtka_evaluations>>
       ELSE /\ err' = "UnknownMethod"
            /\ UNCHANGED evaluator
    /\ UNCHANGED <<expr, aux, pc>>
    /\ UNCHANGED flat
    /\ UNCHANGED stats

\* RTKAEvaluator.reset_stats
reset_stats ==
    /\ pc = "evaluate"
    /\ call' = [op |-> "reset_stats"]
    /\ err' = "none"
    /\ rtka_evaluations' = 0
    /\ naive_evaluations' = 0
    /\ UNCHANGED <<expr, aux, pc, rtka_result, naive_result>>
    /\ UNCHANGED flat
    /\ UNCHANGED stats

Methods == {"rtka", "naive", "fast"}

Next ==
    \/ \E value \in RawValues, confidence \in Confidences : Var(value, confidence)
    \/ \E value \in TruthValueMembers, confidence \in Confidences \ {NoConfidence} :
           Construct(value, confidence)
    \/ Swap
    \/ And
    \/ Or
    \/ Not
    \/ Finish
    \/ \E method \in Methods : Evaluate(method)
    \/ reset_stats

Spec == Init /\ [][Next]_vars

(***************************************************************************)
(* Vocabulary of the properties.                                           *)
(***************************************************************************)
\* number of Atomic nodes of an expression
RECURSIVE Atoms(_)
Atoms(t) ==
    CASE t.kind = "Atomic" -> 1
      [] t.kind = "Negation" -> Atoms(t.operand)
      [] OTHER -> Atoms(t.left) + Atoms(t.right)

\* a left-nested AND chain: an atom, or Conjunction(chain, atom)
RECURSIVE IsLeftAndChain(_)
IsLeftAndChain(t) ==
    \/ t.kind = "Atomic"
    \/ /\ t.kind = "Conjunction"
       /\ t.right.kind = "Atomic"
       /\ IsLeftAndChain(t.left)

\* the leftmost atom of a left-nested chain
RECURSIVE Leftmost(_)
Leftmost(t) == IF t.kind = "Atomic" THEN t ELSE Leftmost(t.left)

\* no node of the subtree under attribute attr had its evaluate method run
Untouched(result, attr) == \A p \in result.calls : p = <<>> \/ p[1] # attr

\* the expression has been evaluated in the given mode
EvaluatedRtka == pc = "evaluate" /\ rtka_result # None
EvaluatedNaive == pc = "evaluate" /\ naive_result # None

\* C1: whenever the same expression has been evaluated in optimized and in
\* naive mode, the two results have the same truth value and the same
\* confidence.
C1_ModesAgree ==
    (EvaluatedRtka /\ EvaluatedNaive) =>
        /\ rtka_result.value = naive_result.value
        /\ rtka_result.confidence = naive_result.confidence

\* C1 witness: both modes evaluated a conjunction on which the optimized mode
\* stopped early, and they agree on FALSE with confidence 1.
C1_Witness ==
    /\ EvaluatedRtka /\ EvaluatedNaive
    /\ expr.kind = "Conjunction"
    /\ rtka_result.evaluations < naive_result.evaluations
    /\ rtka_result.value = "FALSE" /\ naive_result.value = "FALSE"
    /\ naive_result.confidence = ONE

\* C2: the optimized evaluation count of an expression never exceeds its naive
\* evaluation count.
C2_RtkaCountAtMostNaive ==
    (EvaluatedRtka /\ EvaluatedNaive) =>
        rtka_result.evaluations <= naive_result.evaluations

\* C2 witness: a disjunction whose optimized evaluation took strictly fewer
\* evaluations than its naive evaluation.
C2_Witness ==
    /\ EvaluatedRtka /\ EvaluatedNaive
    /\ expr.kind = "Disjunction"
    /\ rtka_result.evaluations = 1
    /\ naive_result.evaluations = 3

\* C3: in optimized mode a Conjunction whose left subtree evaluates to FALSE
\* returns (FALSE, 1.0, the left subtree's count) and runs no node of its
\* right subtree; a left-nested AND chain whose leftmost atom is FALSE has
\* evaluation count 1.
C3_ConjunctionShortCircuit ==
    (EvaluatedRtka /\ expr.kind = "Conjunction") =>
        /\ evaluate_rtka(expr.left).value = "FALSE" =>
              /\ rtka_result.value = "FALSE"
              /\ rtka_result.confidence = ONE
              /\ rtka_result.evaluations = evaluate_rtka(expr.left).evaluations
              /\ Untouched(rtka_result, "right")
        /\ (IsLeftAndChain(expr) /\ Leftmost(expr).value = "FALSE") =>
              rtka_result.evaluations = 1

\* C3 witness: an evaluated left-nested AND chain of three atoms whose
\* leftmost atom is FALSE (its left subtree is itself a conjunction).
C3_Witness ==
    /\ EvaluatedRtka
    /\ expr.kind = "Conjunction"
    /\ IsLeftAndChain(expr)
    /\ Atoms(expr) = 3
    /\ Leftmost(expr).value = "FALSE"
    /\ Untouched(rtka_result, "right")

\* C4: in optimized mode a Disjunction whose left subtree evaluates to TRUE
\* returns (TRUE, 1.0, the left subtree's count) and runs no node of its right
\* subtree.
C4_DisjunctionShortCircuit ==
    (/\ EvaluatedRtka
     /\ expr.kind = "Disjunction"
     /\ evaluate_rtka(expr.left).value = "TRUE") =>
        /\ rtka_result.value = "TRUE"
        /\ rtka_result.confidence = ONE
        /\ rtka_result.evaluations = evaluate_rtka(expr.left).evaluations
        /\ Untouched(rtka_result, "right")

\* C4 witness: an evaluated disjunction whose left subtree is not an atom and
\* evaluates to TRUE, and whose right subtree has more than one node.
C4_Witness ==
    /\ EvaluatedRtka
    /\ expr.kind = "Disjunction"
    /\ expr.left.kind # "Atomic"
    /\ expr.right.kind # "Atomic"
    /\ evaluate_rtka(expr.left).value = "TRUE"
    /\ Untouched(rtka_result, "right")

\* C5 (as claimed): the naive evaluation count of every expression equals its
\* number of Atomic nodes.
C5_NaiveCountsEveryAtom ==
    EvaluatedNaive => naive_result.evaluations = Atoms(expr)

\* the Kleene conjunction and disjunction of two members, by their order
KleeneMin(a, b) ==
    IF "FALSE" \in {a, b} THEN "FALSE"
    ELSE IF "UNKNOWN" \in {a, b} THEN "UNKNOWN" ELSE "TRUE"
KleeneMax(a, b) ==
    IF "TRUE" \in {a, b} THEN "TRUE"
    ELSE IF "UNKNOWN" \in {a, b} THEN "UNKNOWN" ELSE "FALSE"

\* result is what a Conjunction of children with results l and r must return
\* when l is not FALSE
ConjunctionRule(result, l, r) ==
    /\ result.value = KleeneMin(l.value, r.value)
    /\ result.confidence =
           IF result.value = "FALSE" THEN ONE
           ELSE FMul(l.confidence, r.confidence)
    /\ result.evaluations = l.evaluations + r.evaluations

\* C6: a Conjunction whose left subtree does not evaluate to FALSE returns the
\* minimum of its children's values, confidence 1.0 if that is FALSE and the
\* product of the children's confidences otherwise, and the sum of the
\* children's evaluation counts (in either mode, from the children's results
\* in that mode).
C6_ConjunctionCombines ==
    /\ (/\ EvaluatedRtka
        /\ expr.kind = "Conjunction"
        /\ evaluate_rtka(expr.left).value # "FALSE") =>
           ConjunctionRule(rtka_result, evaluate_rtka(expr.left),
                           evaluate_rtka(expr.right))
    /\ (/\ EvaluatedNaive
        /\ expr.kind = "Conjunction"
        /\ evaluate_naive(expr.left).value # "FALSE") =>
           ConjunctionRule(naive_result, evaluate_naive(expr.left),
                           evaluate_naive(expr.right))

\* C6 witness: U(0.5) AND F evaluated in optimized mode gives (FALSE, 1.0)
\* after two evaluations.
C6_Witness ==
    /\ EvaluatedRtka
    /\ expr = Conjunction(AtomicNode("UNKNOWN", HALF), AtomicNode("FALSE", ONE))
    /\ rtka_result.value = "FALSE"
    /\ rtka_result.confidence = ONE
    /\ rtka_result.evaluations = 2

\* result is what a Disjunction of children with results l and r must return
DisjunctionRule(result, l, r) ==
    /\ result.value = KleeneMax(l.value, r.value)
    /\ result.confidence =
           IF result.value = "TRUE" THEN ONE
           ELSE FSub(ONE, FMul(FSub(ONE, l.confidence),
                               FSub(ONE, r.confidence)))

\* C7: in both modes a Disjunction returns the maximum of its children's
\* values, with confidence exactly 1.0 when that is TRUE and
\* 1 - (1 - left)(1 - right) otherwise.
C7_DisjunctionCombines ==
    /\ (EvaluatedRtka /\ expr.kind = "Disjunction") =>
           DisjunctionRule(rtka_result, evaluate_rtka(expr.left),
                           evaluate_rtka(expr.right))
    /\ (EvaluatedNaive /\ expr.kind = "Disjunction") =>
           DisjunctionRule(naive_result, evaluate_naive(expr.left),
                           evaluate_naive(expr.right))

\* C7 witness: a disjunction evaluated in both modes whose left child is
\* UNKNOWN with confidence 0.5 and whose TRUE comes from the right child.
C7_Witness ==
    /\ EvaluatedRtka /\ EvaluatedNaive
    /\ expr.kind = "Disjunction"
    /\ evaluate_rtka(expr.left).value = "UNKNOWN"
    /\ evaluate_rtka(expr.left).confidence = HALF
    /\ evaluate_rtka(expr.right).value = "TRUE"
    /\ rtka_result.value = "TRUE"
    /\ rtka_result.confidence = ONE
    /\ naive_result.confidence = ONE

\* the arithmetic negation of a member
KleeneNot(a) ==
    IF a = "TRUE" THEN "FALSE" ELSE IF a = "FALSE" THEN "TRUE" ELSE "UNKNOWN"

\* C8: evaluating Negation(operand) returns the negated truth value of the
\* operand's result with the operand's confidence and evaluation count.
C8_NegationRewraps ==
    (EvaluatedRtka /\ expr.kind = "Negation") =>
        LET operand_result == evaluate_rtka(expr.operand) IN
        /\ rtka_result.value = KleeneNot(operand_result.value)
        /\ rtka_result.confidence = operand_result.confidence
        /\ rtka_result.evaluations = operand_result.evaluations

\* C8 witness: an evaluated negation of an UNKNOWN operand of two atoms whose
\* confidence is below 1.
C8_Witness ==
    /\ EvaluatedRtka
    /\ expr.kind = "Negation"
    /\ rtka_result.value = "UNKNOWN"
    /\ rtka_result.confidence = <<1, 4>>
    /\ rtka_result.evaluations = 2

\* the Atomic nodes of an expression
RECURSIVE AtomsOf(_)
AtomsOf(t) ==
    CASE t.kind = "None" -> {}
      [] t.kind = "Atomic" -> {t}
      [] t.kind = "Negation" -> AtomsOf(t.operand)
      [] OTHER -> AtomsOf(t.left) \cup AtomsOf(t.right)

\* the ternary integer a value argument stands for
Ternary(value) ==
    IF IsInt(value) THEN value.int ELSE TruthValue_value(value.member)

\* C9: every constructed Atomic node has a confidence in [0,1], which is 1.0
\* if its value is TRUE or FALSE; a TRUE or FALSE atom given another
\* confidence is not constructed; without a confidence argument the node gets
\* 1.0 for TRUE and FALSE and 0.5 for UNKNOWN.
C9_AtomicInvariant ==
    /\ \A a \in AtomsOf(expr) \cup AtomsOf(aux) :
          /\ FLeq(ZERO, a.confidence) /\ FLeq(a.confidence, ONE)
          /\ a.value \in {"TRUE", "FALSE"} => a.confidence = ONE
    /\ (call.op = "Var" /\ Ternary(call.value) \in {-1, 1}
           /\ call.confidence \notin {NoConfidence, ONE}) =>
          (err # "none" /\ pc = "raised" /\ expr = None)
    /\ (call.op = "Var" /\ Ternary(call.value) \in {-1, 0, 1}
           /\ call.confidence = NoConfidence) =>
          /\ err = "none"
          /\ expr = AtomicNode(TruthValue(Ternary(call.value)),
                               IF Ternary(call.value) = 0 THEN HALF ELSE ONE)

\* C9 witness: Var(0) has just returned an UNKNOWN atom of confidence 0.5.
C9_Witness ==
    /\ call = [op |-> "Var", value |-> [int |-> 0], confidence |-> NoConfidence]
    /\ err = "none"
    /\ expr = AtomicNode("UNKNOWN", HALF)

\* C10: constructing an Atomic node from a raw integer outside {-1, 0, 1}
\* raises the invalid-ternary-value error and produces no node.
C10_InvalidTernaryValue ==
    (call.op = "Var" /\ IsInt(call.value) /\ call.value.int \notin {-1, 0, 1}) =>
        /\ err = "InvalidTernaryValue"
        /\ pc = "raised"
        /\ expr = None

\* C10 witness: Var(2) has just raised the invalid-ternary-value error.
C10_Witness ==
    /\ call.op = "Var"
    /\ call.value = [int |-> 2]
    /\ err = "InvalidTernaryValue"
    /\ pc = "raised"

(***************************************************************************)
(* src/code/rtka_u_algorithm.py: the flat-sequence functions.              *)
(* Ternary values are Python ints here.  A call's outcome is               *)
(* [error |-> kind] when it raises, FlatValue(v) when it returns the bare  *)
(* value v and FlatPair(v, c) when it returns the tuple (v, c), where c is *)
(* a float or NoConfidence (Python's None).                                *)
(***************************************************************************)
FlatValue(value) == [error |-> "none", shape |-> "value", value |-> value]
FlatPair(value, confidence) ==
    [error |-> "none", shape |-> "pair", value |-> value,
     confidence |-> confidence]

\* an argument that is a list (as opposed to None)
ListArg(items) == [items |-> items]

\* Python truth of an optional list: neither None nor empty
Truthy(list) == list # None /\ list.items # <<>>

\* mutant: rtka_and returns the larger operand
rtka_and_max(a, b) == Max(a, b)

\* def rtka_and(a, b): return min(a, b)
rtka_and(a, b) == Min(a, b)

\* def rtka_or(a, b): return max(a, b)
rtka_or(a, b) == Max(a, b)

\* def rtka_not(a, _=None): return -a
rtka_not(a) == -a

\* for c in confidences: result *= c
RECURSIVE confidence_and_loop(_, _)
confidence_and_loop(result, confidences) ==
    IF confidences = <<>> THEN result
    ELSE confidence_and_loop(FMul(result, Head(confidences)),
                             Tail(confidences))

\* for c in confidences: result *= (1 - c)
RECURSIVE confidence_or_loop(_, _)
confidence_or_loop(result, confidences) ==
    IF confidences = <<>> THEN result
    ELSE confidence_or_loop(FMul(result, FSub(ONE, Head(confidences))),
                            Tail(confidences))

\* float arithmetic on None raises TypeError
HasNone(confidences) ==
    \E i \in DOMAIN confidences : confidences[i] = NoConfidence

\* def confidence_and(confidences)
confidence_and(confidences) ==
    IF HasNone(confidences) THEN Raised("TypeError")
    ELSE FlatValue(confidence_and_loop(ONE, confidences))

\* mutant: confidence_or multiplies the confidences as confidence_and does
confidence_or_product(confidences) ==
    IF HasNone(confidences) THEN Raised("TypeError")
    ELSE FlatValue(confidence_and_loop(ONE, confidences))

\* def confidence_or(confidences)
confidence_or(confidences) ==
    IF HasNone(confidences) THEN Raised("TypeError")
    ELSE FlatValue(FSub(ONE, confidence_or_loop(ONE, confidences)))

RECURSIVE recursive_ternary(_, _, _)

\* mutant: an empty input list returns UNKNOWN
recursive_ternary_base_no_check(operation, inputs, confidences) ==
    IF inputs = <<>> THEN FlatValue(0)
    ELSE IF Truthy(confidences)
    THEN FlatPair(inputs[1], confidences.items[1])
    ELSE FlatValue(inputs[1])

\* recursive_ternary, lines 31-34: the empty list and the one-element list
recursive_ternary_base(operation, inputs, confidences) ==
    IF inputs = <<>> THEN Raised("EmptyInputSequence")
    ELSE IF Truthy(confidences)
    THEN FlatPair(inputs[1], confidences.items[1])
    ELSE FlatValue(inputs[1])

\* mutant: the early exit is never taken
recursive_ternary_exits_early_never(operation, inputs) == FALSE

\* recursive_ternary, lines 36 and 38: the early-exit conditions
recursive_ternary_exits_early(operation, inputs) ==
    \/ operation = "rtka_and" /\ inputs[1] = -1
    \/ operation = "rtka_or" /\ inputs[1] = 1

\* mutant: the early exit takes the confidence of the first element only
recursive_ternary_early_exit_first_only(operation, inputs, confidences) ==
    FlatPair(inputs[1],
             IF Truthy(confidences) THEN confidences.items[1]
             ELSE NoConfidence)

\* recursive_ternary, lines 37 and 39: what the early exit returns
recursive_ternary_early_exit(operation, inputs, confidences) ==
    IF ~Truthy(confidences) THEN FlatPair(inputs[1], NoConfidence)
    ELSE LET confidence ==
                 IF operation = "rtka_and"
                 THEN confidence_and(confidences.items)
                 ELSE confidence_or(confidences.items)
         IN IF confidence.error # "none" THEN confidence
            ELSE FlatPair(inputs[1], confidence.value)

\* operation(inputs[0], tail_result): min and max of an int and a tuple raise
\* TypeError; rtka_not ignores its second argument
recursive_ternary_apply(operation, a, tail_is_tuple, tail_value) ==
    IF operation = "rtka_not" THEN FlatValue(rtka_not(a))
    ELSE IF tail_is_tuple THEN Raised("TypeError")
    ELSE IF operation = "rtka_and" THEN FlatValue(rtka_and(a, tail_value))
    ELSE FlatValue(rtka_or(a, tail_value))

\* recursive_ternary, lines 41-62: the recursive step
recursive_ternary_step(operation, inputs, confidences) ==
    IF Truthy(confidences)
    THEN LET tail == recursive_ternary(operation, Tail(inputs),
                                       ListArg(Tail(confidences.items)))
         IN
         IF tail.error # "none" THEN tail
         \* tail_result, tail_confidence = <an int>
         ELSE IF tail.shape # "pair" THEN Raised("TypeError")
         ELSE LET result == recursive_ternary_apply(operation, inputs[1],
                                                    FALSE, tail.value)
                  pair == <<confidences.items[1], tail.confidence>>
                  confidence ==
                      IF operation = "rtka_and" THEN confidence_and(pair)
                      ELSE IF operation = "rtka_or" THEN confidence_or(pair)
                      ELSE FlatValue(confidences.items[1])
              IN IF result.error # "none" THEN result
                 ELSE IF confidence.error # "none" THEN confidence
                 ELSE FlatPair(result.value, confidence.value)
    ELSE LET tail == recursive_ternary(operation, Tail(inputs), None) IN
         IF tail.error # "none" THEN tail
         ELSE recursive_ternary_apply(operation, inputs[1],
                                      tail.shape = "pair", tail.value)

\* def recursive_ternary(operation, inputs, confidences=None)
recursive_ternary(operation, inputs, confidences) ==
    IF Len(inputs) <= 1
    THEN recursive_ternary_base(operation, inputs, confidences)
    ELSE IF recursive_ternary_exits_early(operation, inputs)
    THEN recursive_ternary_early_exit(operation, inputs, confidences)
    ELSE recursive_ternary_step(operation, inputs, confidences)

\* The invocations of recursive_ternary one call makes, outermost first: the
\* position in the caller's list of the first element each was given, and
\* the branch it took: "base" (lines 31-34), "early" (lines 36-39) or "step"
\* (lines 41-62, which always makes the recursive call on inputs[1:]).
RECURSIVE recursive_ternary_calls(_, _, _)
recursive_ternary_calls(operation, inputs, position) ==
    IF Len(inputs) <= 1
    THEN <<[position |-> position, taken |-> "base"]>>
    ELSE IF recursive_ternary_exits_early(operation, inputs)
    THEN <<[position |-> position, taken |-> "early"]>>
    ELSE <<[position |-> position, taken |-> "step"]>>
         \o recursive_ternary_calls(operation, Tail(inputs), position + 1)

(***************************************************************************)
(* Calls of the flat-sequence functions.  The functions are pure: a run    *)
(* is one call, whose arguments the initial state draws, and its return.   *)
(***************************************************************************)
\* longest list passed to a flat-sequence function
MaxLen == 3

\* the integers passed as ternary values, valid and invalid
FlatInts == -2 .. 2
\* the floats passed as confidences, valid and invalid
FlatConfidences == {HALF, ONE, <<3, 2>>}

Lists(S) == UNION {[1 .. n -> S] : n \in 0 .. MaxLen}

Operations == {"rtka_and", "rtka_or", "rtka_not"}

FlatCalls ==
    {[fn |-> f, a |-> a, b |-> b] :
        f \in {"rtka_and", "rtka_or"}, a \in FlatInts, b \in FlatInts}
    \cup {[fn |-> "rtka_not", a |-> a] : a \in FlatInts}
    \cup {[fn |-> f, confidences |-> c] :
            f \in {"confidence_and", "confidence_or"},
            c \in Lists(FlatConfidences)}
    \cup {[fn |-> "recursive_ternary", operation |-> o, inputs |-> i,
           confidences |-> c] :
            o \in Operations, i \in Lists(FlatInts),
            c \in {None} \cup {ListArg(l) : l \in Lists(FlatConfidences)}}

InitFlat ==
    /\ expr = None
    /\ aux = None
    /\ call = [op |-> "none"]
    /\ err = "none"
    /\ pc = "build"
    /\ rtka_result = None
    /\ naive_result = None
    /\ rtka_evaluations = 0
    /\ naive_evaluations = 0
    /\ flat_call \in FlatCalls
    /\ flat_result = None
    /\ flat_visits = <<>>
    /\ StatsConstructed

tree == <<expr, aux, call, err, pc, rtka_result, naive_result,
          rtka_evaluations, naive_evaluations>>

Call_rtka_and ==
    /\ flat_call.fn = "rtka_and" /\ flat_result = None
    /\ flat_result' = FlatValue(rtka_and(flat_call.a, flat_call.b))
    /\ UNCHANGED <<flat_call, flat_visits, tree, stats>>

Call_rtka_or ==
    /\ flat_call.fn = "rtka_or" /\ flat_result = None
    /\ flat_result' = FlatValue(rtka_or(flat_call.a, flat_call.b))
    /\ UNCHANGED <<flat_call, flat_visits, tree, stats>>

Call_rtka_not ==
    /\ flat_call.fn = "rtka_not" /\ flat_result = None
    /\ flat_result' = FlatValue(rtka_not(flat_call.a))
    /\ UNCHANGED <<flat_call, flat_visits, tree, stats>>

Call_confidence_and ==
    /\ flat_call.fn = "confidence_and" /\ flat_result = None
    /\ flat_result' = confidence_and(flat_call.confidences)
    /\ UNCHANGED <<flat_call, flat_visits, tree, stats>>

Call_confidence_or ==
    /\ flat_call.fn = "confidence_or" /\ flat_result = None
    /\ flat_result' = confidence_or(flat_call.confidences)
    /\ UNCHANGED <<flat_call, flat_visits, tree, stats>>

Call_recursive_ternary ==
    /\ flat_call.fn = "recursive_ternary" /\ flat_result = None
    /\ flat_result' = recursive_ternary(flat_call.operation, flat_call.inputs,
                                        flat_call.confidences)
    /\ flat_visits' = recursive_ternary_calls(flat_call.operation,
                                              flat_call.inputs, 1)
    /\ UNCHANGED <<flat_call, tree, stats>>

\* the operator name evaluate_expression takes for a flat operation
OperatorName(operation) ==
    CASE operation = "rtka_and" -> "AND"
      [] operation = "rtka_or" -> "OR"
      [] operation = "rtka_not" -> "NOT"

\* The caller of recursive_ternary(operation, inputs, confidences) hands the
\* same two lists to evaluate_expression, before or after.  The evaluator
\* evaluate_expression makes is its own: its counters start at 0.
Call_evaluate_expression ==
    /\ flat_call.fn = "recursive_ternary"
    /\ flat_call.confidences # None
    /\ call.op = "none"
    /\ LET done == evaluate_expression(flat_call.inputs,
                                       flat_call.confidences.items,
                                       OperatorName(flat_call.operation))
       IN /\ call' = [op |-> "evaluate_expression"]
          /\ err' = done.error
          /\ IF done.error = "none"
             THEN /\ expr' = done.expr
                  /\ rtka_result' = done.result_rtka
                  /\ naive_result' = done.result_naive
                  /\ rtka_evaluations' = done.result_rtka.evaluations
                  /\ naive_evaluations' = done.result_naive.evaluations
                  /\ pc' = "done"
             ELSE /\ pc' = "raised"
                  /\ UNCHANGED <<expr, evaluator>>
    /\ UNCHANGED aux
    /\ UNCHANGED flat
    /\ UNCHANGED stats

NextFlat ==
    \/ Call_evaluate_expression
    \/ Call_rtka_and
    \/ Call_rtka_or
    \/ Call_rtka_not
    \/ Call_confidence_and
    \/ Call_confidence_or
    \/ Call_recursive_ternary

SpecFlat == InitFlat /\ [][NextFlat]_vars

(***************************************************************************)
(* Calls of the methods of the RTKAEvaluator instances, in any order, as   *)
(* test_performance_comparison makes them on one instance.                 *)
(***************************************************************************)
\* evaluate calls in the histories of all instances together
MaxCalls == 4

\* time.perf_counter() is monotonic: the second reading is the first or later
Elapsed == {0, 1}

\* the evaluate calls instance i made since its last reset
CallsOf(i) ==
    LET RECURSIVE Sum(_, _)
        Sum(f, S) == IF S = {} THEN 0
                     ELSE LET t == CHOOSE t \in S : TRUE
                          IN f[t] + Sum(f, S \ {t})
    IN Sum(history[i].rtka, StatsTrees) + Sum(history[i].naive, StatsTrees)

\* evaluators[i].evaluate(expression, method)
Evaluator_evaluate(i, expression, method, elapsed) ==
    LET done == RTKAEvaluator_evaluate(evaluators[i], expression, method,
                                       elapsed)
        entered == history[i]
        left ==
            IF done.error # "none" THEN entered
            ELSE IF method = "rtka"
            THEN [entered EXCEPT
                     !.rtka[expression] = @ + 1,
                     !.rtka_returned = @ + done.result.evaluations]
            ELSE IF method = "naive"
            THEN [entered EXCEPT
                     !.naive[expression] = @ + 1,
                     !.naive_returned = @ + done.result.evaluations]
            ELSE entered
    IN /\ evaluators' = [evaluators EXCEPT ![i] = done.self]
       /\ history' = [history EXCEPT ![i] = left]
       /\ stats_call' = [op |-> "evaluate", self |-> i, method |-> method,
                         error |-> done.error,
                         returned |-> IF done.error = "none"
                                      THEN done.result.evaluations ELSE 0]
       /\ UNCHANGED <<tree, flat>>

\* evaluators[i].reset_stats()
Evaluator_reset_stats(i) ==
    /\ evaluators' =
          [evaluators EXCEPT ![i] = RTKAEvaluator_reset_stats(evaluators[i])]
    /\ history' = [history EXCEPT ![i] = NoHistory]
    /\ stats_call' = [op |-> "reset_stats", self |-> i]
    /\ UNCHANGED <<tree, flat>>

\* evaluators[i].performance_summary()
Evaluator_performance_summary(i) ==
    /\ stats_call' =
          [op |-> "performance_summary", self |-> i,
           summary |-> RTKAEvaluator_performance_summary(evaluators[i])]
    /\ UNCHANGED <<evaluators, history, tree, flat>>

NextStats ==
    \E i \in Instances :
        \/ /\ CallsOf(1) + CallsOf(2) < MaxCalls
           /\ \E expression \in StatsTrees, method \in Methods,
                 elapsed \in Elapsed :
                  Evaluator_evaluate(i, expression, method, elapsed)
        \/ Evaluator_reset_stats(i)
        \/ Evaluator_performance_summary(i)

SpecStats == Init /\ [][NextStats]_vars

\* C11 (as claimed): constructing an Atomic node with a confidence outside
\* [0,1] raises the out-of-range error InvalidConfidence, whichever of the
\* ternary values -1, 0, 1 it is given.
C11_OutOfRangeIsInvalidConfidence ==
    (/\ call.op = "Var"
     /\ Ternary(call.value) \in {-1, 0, 1}
     /\ call.confidence # NoConfidence
     /\ ~(FLeq(ZERO, call.confidence) /\ FLeq(call.confidence, ONE))) =>
        err = "InvalidConfidence"

(***************************************************************************)
(* Vocabulary of the properties of the flat-sequence functions.            *)
(***************************************************************************)
\* the call has returned or raised
Returned == flat_result # None

IsTernary(v) == v \in {-1, 0, 1}
AllTernary(list) == \A i \in DOMAIN list : IsTernary(list[i])
InUnitInterval(c) == FLeq(ZERO, c) /\ FLeq(c, ONE)
AllInUnitInterval(list) == \A i \in DOMAIN list : InUnitInterval(list[i])

\* least and greatest element of a non-empty list of integers
Least(list) ==
    CHOOSE m \in {list[i] : i \in DOMAIN list} :
        \A i \in DOMAIN list : m <= list[i]
Greatest(list) ==
    CHOOSE m \in {list[i] : i \in DOMAIN list} :
        \A i \in DOMAIN list : m >= list[i]

\* product of all c_i, and of all (1 - c_i), from the last element backwards
RECURSIVE ProductOfAll(_)
ProductOfAll(list) ==
    IF list = <<>> THEN ONE
    ELSE FMul(ProductOfAll(SubSeq(list, 1, Len(list) - 1)), list[Len(list)])
RECURSIVE ProductOfComplements(_)
ProductOfComplements(list) ==
    IF list = <<>> THEN ONE
    ELSE FMul(ProductOfComplements(SubSeq(list, 1, Len(list) - 1)),
              FSub(ONE, list[Len(list)]))

\* a returned call recursive_ternary(AND or OR, inputs, confidences)
FoldCall ==
    /\ flat_call.fn = "recursive_ternary"
    /\ flat_call.operation \in {"rtka_and", "rtka_or"}
    /\ Returned

C13_FoldWithoutConfidences ==
    (/\ FoldCall
     /\ flat_call.inputs # <<>>
     /\ AllTernary(flat_call.inputs)
     /\ flat_call.confidences = None) =>
        flat_result =
            FlatValue(IF flat_call.operation = "rtka_and"
                      THEN Least(flat_call.inputs)
                      ELSE Greatest(flat_call.inputs))

\* C14 (as claimed): recursive_ternary given a confidence list whose length
\* differs from that of the value list raises the MismatchedLengths error.
C14_MismatchedLengths ==
    (/\ flat_call.fn = "recursive_ternary"
     /\ Returned
     /\ flat_call.inputs # <<>>
     /\ flat_call.confidences # None
     /\ Len(flat_call.confidences.items) # Len(flat_call.inputs)) =>
        flat_result = Raised("MismatchedLengths")

\* C15: recursive_ternary given an empty value list raises the
\* EmptyInputSequence error, for every operator, with and without
\* confidences.
C15_EmptyInputSequence ==
    (/\ flat_call.fn = "recursive_ternary"
     /\ Returned
     /\ flat_call.inputs = <<>>) =>
        flat_result = Raised("EmptyInputSequence")

\* C15 witness: recursive_ternary(rtka_or, [], [0.5]) has raised.
C15_Witness ==
    /\ flat_call.fn = "recursive_ternary"
    /\ flat_call.operation = "rtka_or"
    /\ flat_call.inputs = <<>>
    /\ flat_call.confidences = ListArg(<<HALF>>)
    /\ flat_result = Raised("EmptyInputSequence")

\* C16 (as claimed): recursive_ternary raises the InvalidTernaryValue error
\* whenever some element of the value list is outside {-1, 0, 1}.
C16_InvalidElement ==
    (/\ flat_call.fn = "recursive_ternary"
     /\ Returned
     /\ ~AllTernary(flat_call.inputs)) =>
        flat_result = Raised("InvalidTernaryValue")

\* C17 (as claimed): rtka_and, rtka_or and rtka_not raise the
\* InvalidTernaryValue error whenever an argument is outside {-1, 0, 1}.
C17_InvalidOperand ==
    /\ (/\ flat_call.fn \in {"rtka_and", "rtka_or"}
        /\ Returned
        /\ ~(IsTernary(flat_call.a) /\ IsTernary(flat_call.b))) =>
           flat_result = Raised("InvalidTernaryValue")
    /\ (/\ flat_call.fn = "rtka_not"
        /\ Returned
        /\ ~IsTernary(flat_call.a)) =>
           flat_result = Raised("InvalidTernaryValue")

\* C18 (as claimed): confidence_and, confidence_or and recursive_ternary
\* raise the InvalidConfidence error whenever a supplied confidence is
\* outside [0,1].
C18_InvalidConfidence ==
    /\ (/\ flat_call.fn \in {"confidence_and", "confidence_or"}
        /\ Returned
        /\ ~AllInUnitInterval(flat_call.confidences)) =>
           flat_result = Raised("InvalidConfidence")
    /\ (/\ flat_call.fn = "recursive_ternary"
        /\ Returned
        /\ flat_call.inputs # <<>>
        /\ AllTernary(flat_call.inputs)
        /\ flat_call.confidences # None
        /\ Len(flat_call.confidences.items) = Len(flat_call.inputs)
        /\ ~AllInUnitInterval(flat_call.confidences.items)) =>
           flat_result = Raised("InvalidConfidence")

\* C19 (as claimed): confidence_and([]) and confidence_or([]) raise the
\* EmptyConfidenceSet error.
C19_EmptyConfidenceSet ==
    (/\ flat_call.fn \in {"confidence_and", "confidence_or"}
     /\ Returned
     /\ flat_call.confidences = <<>>) =>
        flat_result = Raised("EmptyConfidenceSet")

\* the Kleene tables, by dominance: FALSE (-1) dominates AND, TRUE (1)
\* dominates OR, then UNKNOWN (0)
KleeneAndTable(a, b) ==
    IF -1 \in {a, b} THEN -1 ELSE IF 0 \in {a, b} THEN 0 ELSE 1
KleeneOrTable(a, b) ==
    IF 1 \in {a, b} THEN 1 ELSE IF 0 \in {a, b} THEN 0 ELSE -1
KleeneNotTable(a) == IF a = 1 THEN -1 ELSE IF a = -1 THEN 1 ELSE 0

\* C20: on {-1, 0, 1}, rtka_and is the minimum, rtka_or the maximum and
\* rtka_not the arithmetic negation, and the results stay in {-1, 0, 1}.
C20_KleeneOperators ==
    /\ (/\ flat_call.fn = "rtka_and" /\ Returned
        /\ IsTernary(flat_call.a) /\ IsTernary(flat_call.b)) =>
           flat_result = FlatValue(KleeneAndTable(flat_call.a, flat_call.b))
    /\ (/\ flat_call.fn = "rtka_or" /\ Returned
        /\ IsTernary(flat_call.a) /\ IsTernary(flat_call.b)) =>
           flat_result = FlatValue(KleeneOrTable(flat_call.a, flat_call.b))
    /\ (flat_call.fn = "rtka_not" /\ Returned /\ IsTernary(flat_call.a)) =>
           flat_result = FlatValue(KleeneNotTable(flat_call.a))

\* C20 witness: rtka_and(0, -1) has returned -1.
C20_Witness ==
    /\ flat_call = [fn |-> "rtka_and", a |-> 0, b |-> -1]
    /\ flat_result = FlatValue(-1)

(***************************************************************************)
(* Properties of the results of valid trees.                               *)
(***************************************************************************)
\* the nodes of an expression, the expression itself included
RECURSIVE Subtrees(_)
Subtrees(t) ==
    CASE t.kind = "None" -> {}
      [] t.kind = "Atomic" -> {t}
      [] t.kind = "Negation" -> {t} \cup Subtrees(t.operand)
      [] OTHER -> {t} \cup Subtrees(t.left) \cup Subtrees(t.right)

\* the results the nodes of the caller's expressions give, in either mode
NodeResults ==
    {evaluate_rtka(t) : t \in Subtrees(expr) \cup Subtrees(aux)} \cup
    {evaluate_naive(t) : t \in Subtrees(expr) \cup Subtrees(aux)}

\* C24: every result of evaluating a constructed tree, in either mode and at
\* every node, has a confidence in [0,1], and evaluating never raises the
\* confidence error; EvaluationResult called with a confidence outside [0,1]
\* raises that error and makes no object, and called with one inside [0,1]
\* it keeps the confidence as given.
C24_ResultConfidenceInUnitInterval ==
    /\ \A r \in NodeResults : ~r.raised /\ InUnitInterval(r.confidence)
    /\ call.op = "evaluate" => err # "InvalidConfidence"
    /\ rtka_result # None => InUnitInterval(rtka_result.confidence)
    /\ naive_result # None => InUnitInterval(naive_result.confidence)
    /\ call.op = "EvaluationResult" =>
          IF InUnitInterval(call.confidence)
          THEN /\ err = "none"
               /\ call.returned # None
               /\ call.returned.confidence = call.confidence
          ELSE /\ err = "InvalidConfidence"
               /\ call.returned = None

\* C24 witness: U(0.5) OR U(0.5) evaluated in optimized mode to confidence
\* 0.75, strictly inside the interval.
C24_Witness ==
    /\ EvaluatedRtka
    /\ call.op = "evaluate"
    /\ expr.kind = "Disjunction"
    /\ rtka_result.value = "UNKNOWN"
    /\ rtka_result.confidence = <<3, 4>>

\* c to the power n
RECURSIVE Power(_, _)
Power(c, n) == IF n = 0 THEN ONE ELSE FMul(c, Power(c, n - 1))

\* C25: a left-nested Conjunction of n >= 1 UNKNOWN atoms that all have the
\* confidence c evaluates in optimized mode to (UNKNOWN, c^n) with n
\* evaluations.
C25_ChainDecay ==
    (/\ EvaluatedRtka
     /\ IsLeftAndChain(expr)
     /\ \A a \in AtomsOf(expr) : a.value = "UNKNOWN"
     /\ Cardinality({a.confidence : a \in AtomsOf(expr)}) = 1)
    => LET c == Leftmost(expr).confidence
           n == Atoms(expr)
       IN /\ rtka_result.value = "UNKNOWN"
          /\ rtka_result.confidence = Power(c, n)
          /\ rtka_result.evaluations = n

\* C25 witness: the chain of three U(0.5) evaluated to (UNKNOWN, 1/8) with
\* three evaluations.
C25_Witness ==
    /\ EvaluatedRtka
    /\ IsLeftAndChain(expr)
    /\ Atoms(expr) = 3
    /\ \A a \in AtomsOf(expr) : a.value = "UNKNOWN" /\ a.confidence = HALF
    /\ rtka_result.confidence = <<1, 8>>
    /\ rtka_result.evaluations = 3

\* C26: in either mode, at the root and at every node of a constructed tree,
\* a result whose value is TRUE or FALSE has confidence exactly 1.0.
C26_DefiniteResultsAreCertain ==
    /\ \A r \in NodeResults :
          (~r.raised /\ r.value \in {"TRUE", "FALSE"}) => r.confidence = ONE
    /\ (rtka_result # None /\ rtka_result.value # "UNKNOWN")
          => rtka_result.confidence = ONE
    /\ (naive_result # None /\ naive_result.value # "UNKNOWN")
          => naive_result.confidence = ONE

\* C26 witness: U(0.5) OR T evaluated in naive mode to TRUE with confidence
\* 1.0, computed by the disjunction's formula from 0.5 and 1.0.
C26_Witness ==
    /\ EvaluatedNaive
    /\ expr.kind = "Disjunction"
    /\ expr.left.kind = "Atomic" /\ expr.left.confidence = HALF
    /\ naive_result.value = "TRUE"
    /\ naive_result.confidence = ONE

(***************************************************************************)
(* Which elements the flat fold visits.                                    *)
(***************************************************************************)
\* the value that decides the fold: FALSE for AND, TRUE for OR
Dominant(operation) == IF operation = "rtka_and" THEN -1 ELSE 1

\* the positions before the last one that hold the deciding value
DecidingPositions(operation, inputs) ==
    {k \in 1 .. Len(inputs) - 1 : inputs[k] = Dominant(operation)}

\* the branches the invocations at positions 1 .. last took
Branches(last, final) ==
    [k \in 1 .. last |->
        [position |-> k, taken |-> IF k = last THEN final ELSE "step"]]

\* C27 (as claimed): when the first element of the list is not the deciding
\* value (FALSE for AND, TRUE for OR) but a later element is, no invocation
\* takes the early exit and the recursion visits every element down to the
\* one-element base case.
C27_EarlyExitOnlyOnFirstElement ==
    (/\ FoldCall
     /\ Len(flat_call.inputs) >= 2
     /\ flat_call.inputs[1] # Dominant(flat_call.operation)
     /\ \E k \in 2 .. Len(flat_call.inputs) :
            flat_call.inputs[k] = Dominant(flat_call.operation))
    => flat_visits = Branches(Len(flat_call.inputs), "base")

\* C27 (amended): every invocation tests the first element of the list it
\* was given, so the recursion stops with the early exit at the first
\* position before the last that holds the deciding value and visits nothing
\* after it; it reaches the one-element base case, having visited every
\* element, exactly when no position before the last holds that value.
C27_EarlyExitAtFirstDecidingElement ==
    (FoldCall /\ flat_call.inputs # <<>>)
    => LET deciding == DecidingPositions(flat_call.operation, flat_call.inputs)
       IN IF deciding = {}
          THEN flat_visits = Branches(Len(flat_call.inputs), "base")
          ELSE flat_visits =
                   Branches(CHOOSE k \in deciding : \A j \in deciding : k <= j,
                            "early")

\* C27 witness: recursive_ternary(rtka_and, [1, -1, 0], [0.5, 0.5, 0.5]) has
\* returned after the invocation on [-1, 0] took the early exit.
C27_Witness ==
    /\ FoldCall
    /\ flat_call.operation = "rtka_and"
    /\ flat_call.inputs = <<1, -1, 0>>
    /\ flat_call.confidences = ListArg(<<HALF, HALF, HALF>>)
    /\ flat_result = FlatPair(-1, <<1, 8>>)
    /\ flat_visits = <<[position |-> 1, taken |-> "step"],
                       [position |-> 2, taken |-> "early"]>>

(***************************************************************************)
(* The flat fold against the tree evaluator.                               *)
(***************************************************************************)
\* the pairs (values[i], confidences[i]) are arguments Var accepts
ValidAtomicInputs(values, confidences) ==
    /\ values # <<>>
    /\ Len(values) = Len(confidences)
    /\ \A i \in DOMAIN values :
          /\ IsTernary(values[i])
          /\ InUnitInterval(confidences[i])
          /\ values[i] # 0 => confidences[i] = ONE

\* recursive_ternary(AND or OR, inputs, confidences) and evaluate_expression
\* on the same lists have both ended, the lists being valid atomic inputs
FoldedBothWays ==
    /\ FoldCall
    /\ call.op = "evaluate_expression"
    /\ flat_call.confidences # None
    /\ ValidAtomicInputs(flat_call.inputs, flat_call.confidences.items)

\* both evaluators returned, and the same truth value
SameTruthValue ==
    /\ err = "none"
    /\ flat_result.error = "none"
    /\ flat_result.shape = "pair"
    /\ flat_result.value = TruthValue_value(rtka_result.value)

\* C28 (as claimed): on valid atomic (value, confidence) pairs,
\* recursive_ternary with AND (OR) and confidences returns the truth value
\* and the confidence that optimized evaluation of the left-nested
\* Conjunction (Disjunction) of the atoms returns.
C28_FlatAgreesWithTree ==
    FoldedBothWays
    => /\ SameTruthValue
       /\ flat_result.confidence = rtka_result.confidence

\* C28 (amended): on valid atomic (value, confidence) pairs both return the
\* same truth value, and the same confidence unless the operator is AND and
\* the result FALSE: there the tree returns confidence 1.0 and
\* recursive_ternary the product of all the confidences.
C28_FlatAgreesWithTreeUnlessFalse ==
    FoldedBothWays
    => /\ SameTruthValue
       /\ IF flat_call.operation = "rtka_and" /\ rtka_result.value = "FALSE"
          THEN /\ rtka_result.confidence = ONE
               /\ flat_result.confidence =
                      ProductOfAll(flat_call.confidences.items)
          ELSE flat_result.confidence = rtka_result.confidence

\* C28 witness: on [0, -1] with [0.5, 1.0] and AND, recursive_ternary
\* returned (-1, 0.5) and the tree (FALSE, 1.0).
C28_Witness ==
    /\ FoldedBothWays
    /\ flat_call.operation = "rtka_and"
    /\ flat_call.inputs = <<0, -1>>
    /\ flat_call.confidences.items = <<HALF, ONE>>
    /\ flat_result = FlatPair(-1, HALF)
    /\ rtka_result.value = "FALSE"
    /\ rtka_result.confidence = ONE

(***************************************************************************)
(* Properties of the evaluators' instrumentation.                          *)
(***************************************************************************)
\* C21: the counter rtka_evaluations of an evaluator is the sum of the
\* evaluation counts its optimized-mode evaluate calls returned since its
\* last reset (or construction), naive_evaluations the same sum for its
\* naive-mode calls; both are 0 right after construction and right after
\* reset_stats.
C21_CountersSumReturnedCounts ==
    /\ \A i \in Instances :
          /\ evaluators[i].rtka_evaluations = history[i].rtka_returned
          /\ evaluators[i].naive_evaluations = history[i].naive_returned
    /\ stats_call.op = "none" =>
          \A i \in Instances : /\ evaluators[i].rtka_evaluations = 0
                                /\ evaluators[i].naive_evaluations = 0
    /\ stats_call.op = "reset_stats" =>
          /\ evaluators[stats_call.self].rtka_evaluations = 0
          /\ evaluators[stats_call.self].naive_evaluations = 0

\* C21 witness: evaluator 1 has summed the counts of its optimized calls to 2
\* and those of its naive calls to 3.
C21_Witness ==
    /\ stats_call.op = "evaluate"
    /\ history[1].rtka_returned = 2
    /\ history[1].naive_returned = 3
    /\ evaluators[1].rtka_evaluations = 2
    /\ evaluators[1].naive_evaluations = 3

\* the summary just returned and the evaluator it was asked of
Summarised == stats_call.op = "performance_summary"
summary == stats_call.summary
summarised == evaluators[stats_call.self]

\* the rational q is the quotient a / b
IsQuotient(q, a, b) == q[2] > 0 /\ q[1] * b = a * q[2]

\* C22: performance_summary returns evaluation_reduction =
\* (naive_evaluations - rtka_evaluations) / naive_evaluations when
\* naive_evaluations > 0 and 0 otherwise, speedup = naive_time / rtka_time
\* when rtka_time > 0 and 0 otherwise, and never divides by zero.
C22_PerformanceSummary ==
    Summarised
    => /\ summary.error = "none"
       /\ IF summarised.naive_evaluations > 0
          THEN IsQuotient(summary.evaluation_reduction,
                          summarised.naive_evaluations
                              - summarised.rtka_evaluations,
                          summarised.naive_evaluations)
          ELSE summary.evaluation_reduction = ZERO
       /\ IF summarised.rtka_time > 0
          THEN IsQuotient(summary.speedup, summarised.naive_time,
                          summarised.rtka_time)
          ELSE summary.speedup = ZERO

\* C22 witness: a summary over 1 optimized and 2 naive evaluations and
\* times 1 and 2 reports the reduction 1/2 and the speedup 2.
C22_Witness ==
    /\ Summarised
    /\ summary.error = "none"
    /\ summary.evaluation_reduction = <<1, 2>>
    /\ summary.speedup = <<2, 1>>

\* the optimized and the naive half of an evaluator's statistics
RtkaStats(e) == <<e.rtka_evaluations, e.rtka_time>>
NaiveStats(e) == <<e.naive_evaluations, e.naive_time>>

\* C23: an optimized-mode evaluate call leaves naive_evaluations and
\* naive_time of its evaluator unchanged, a naive-mode call leaves
\* rtka_evaluations and rtka_time unchanged, performance_summary changes no
\* statistic, and no call on one evaluator changes a statistic of another.
C23_InstrumentationFrame ==
    [][LET i == stats_call'.self IN
       /\ (stats_call'.op = "evaluate" /\ stats_call'.method = "rtka")
             => NaiveStats(evaluators'[i]) = NaiveStats(evaluators[i])
       /\ (stats_call'.op = "evaluate" /\ stats_call'.method = "naive")
             => RtkaStats(evaluators'[i]) = RtkaStats(evaluators[i])
       /\ stats_call'.op = "performance_summary"
             => evaluators' = evaluators
       /\ \A j \in Instances \ {i} : evaluators'[j] = evaluators[j]]_vars

\* C23 witness: an optimized-mode call has just returned on evaluator 1,
\* whose naive statistics are not 0, while evaluator 2 has statistics that
\* are not 0 either.
C23_Witness ==
    /\ stats_call.op = "evaluate"
    /\ stats_call.self = 1
    /\ stats_call.method = "rtka"
    /\ stats_call.error = "none"
    /\ evaluators[1].naive_evaluations > 0 /\ evaluators[1].naive_time > 0
    /\ evaluators[2].rtka_evaluations > 0 /\ evaluators[2].naive_time > 0

\* C29: when, since its last reset, an evaluator has evaluated every tree as
\* often in optimized as in naive mode, the evaluation_reduction its
\* performance_summary returns is at least 0 and less than 1.
C29_ReductionInUnitInterval ==
    (/\ Summarised
     /\ history[stats_call.self].rtka = history[stats_call.self].naive)
    => /\ summary.error = "none"
       /\ FLeq(ZERO, summary.evaluation_reduction)
       /\ ~FLeq(ONE, summary.evaluation_reduction)

\* C29 witness: each of the two expressions evaluated once in either mode,
\* 2 optimized against 3 naive evaluations: the reduction is 1/3.
C29_Witness ==
    /\ Summarised
    /\ history[stats_call.self].rtka = [t \in StatsTrees |-> 1]
    /\ history[stats_call.self].naive = [t \in StatsTrees |-> 1]
    /\ summary.evaluation_reduction = <<1, 3>>

\* C30: evaluate called with a method other than "rtka" and "naive" raises
\* the unknown-method error, evaluates nothing and leaves rtka_evaluations,
\* naive_evaluations, rtka_time and naive_time of every evaluator unchanged.
C30_UnknownMethod ==
    [][(stats_call'.op = "evaluate"
          /\ stats_call'.method \notin {"rtka", "naive"})
       => /\ stats_call'.error = "UnknownMethod"
          /\ stats_call'.returned = 0
          /\ evaluators' = evaluators
          /\ history' = history]_vars

\* C30 witness: evaluate(expression, "fast") has just raised on an
\* evaluator whose four statistics are all above 0.
C30_Witness ==
    /\ stats_call.op = "evaluate"
    /\ stats_call.method = "fast"
    /\ stats_call.error = "UnknownMethod"
    /\ evaluators[stats_call.self].rtka_evaluations > 0
    /\ evaluators[stats_call.self].naive_evaluations > 0
    /\ evaluators[stats_call.self].rtka_time > 0
    /\ evaluators[stats_call.self].naive_time > 0

====
